---- MODULE Spec2Model ----
(***************************************************************************)
(* Semantic re-ranking of search results (taha-shahid1/invidly).           *)
(*                                                                         *)
(* Two variants of the ranking engine live in the repository:              *)
(*   "redis" : src/unnamed/part_000 (embedding cache in Redis)             *)
(*   "mem"   : src/src/backend/src/services/search/rank-results.ts         *)
(*             (query embedding cached in a caller-supplied object)        *)
(* An invocation of rankSearchResults is an async function: it runs        *)
(* synchronously up to the next await on the cache or on the provider.     *)
(* Each action below is one such segment: the reply of the awaited call    *)
(* together with the continuation up to the next await.                    *)
(* The same holds for the other async functions of rank-results.ts that    *)
(* are modelled: initRedis / closeRedis, generateSearchQueries and         *)
(* searchGoogle, whose callbacks (one per query) interleave at each await. *)
(*                                                                         *)
(* Text is a sequence of one-character strings.  A JavaScript value that   *)
(* may be null/undefined is a sequence of length 0 (absent) or 1.          *)
(* A similarity v is kept exactly, as the reduced fraction of sgn(v)*v^2   *)
(* (an order-preserving image of v); d = 0 stands for NaN.  Floating-point *)
(* rounding is not modelled.                                               *)
(***************************************************************************)
EXTENDS Integers, Sequences, FiniteSets, TLC

\* ------------------------------------------------------------------ bounds
\* longest result list handed to rank
MaxResults == 2
\* concurrent rank invocations (SpecConc); Spec runs invocation 1 alone
NProcs == 2
\* concurrent callers of initRedis / closeRedis (SpecLife); Spec runs caller 1 alone
NCallers == 2

\* largest topN handed to getTopResults (SpecTop)
MaxTopN == 3
\* longest queries list in an answer of the language model (SpecGen)
MaxModelQueries == 5
\* longest list of queries handed to searchGoogle (SpecSearch)
MaxSearchQueries == 2
\* longest metatags list of a result (SpecExtract)
MaxTags == 2

\* --------------------------------------------------------------- constants
EMBEDDING_MODEL == "text-embedding-3-small"
EMBEDDING_CACHE_DURATION == 604800
OG_DESCRIPTION_MAX == 800
MAX_QUERIES == 4
CACHE_DURATION == 2 * 60 * 60

\* ------------------------------------------------------------------- text
Null == <<>>
Some(v) == <<v>>
IsNull(o) == Len(o) = 0
Val(o) == o[1]

Min(a, b) == IF a < b THEN a ELSE b

RECURSIVE TrimStart(_)
TrimStart(s) == IF Len(s) > 0 /\ s[1] = " " THEN TrimStart(Tail(s)) ELSE s

RECURSIVE TrimEnd(_)
TrimEnd(s) ==
    IF Len(s) > 0 /\ s[Len(s)] = " " THEN TrimEnd(SubSeq(s, 1, Len(s) - 1)) ELSE s

\* String.prototype.trim
Trim(s) == TrimEnd(TrimStart(s))

\* String.prototype.substring(0, n)
SubstringTo(s, n) == SubSeq(s, 1, Min(n, Len(s)))

\* the number of occurrences of character c in s
Count(s, c) == Cardinality({i \in 1..Len(s) : s[i] = c})

\* !text || text.trim().length === 0
IsBlank(text) == Len(text) = 0 \/ Len(Trim(text)) = 0

\* The fixed parts of the template `Title: ${title} Description: ${description}`
TitlePrefix == <<"T">>
DescriptionInfix == <<"D">>

CharCode(c) ==
    CASE c = " " -> 1 [] c = "a" -> 2 [] c = "b" -> 3 [] c = "c" -> 4
      [] c = "T" -> 5 [] c = "D" -> 6 [] OTHER -> 7

\* sha256(...).digest('hex').substring(0, 16): a digest, here a positional
\* code of the characters, which is collision-free on the texts of the model
RECURSIVE Digest(_, _)
Digest(s, h) == IF Len(s) = 0 THEN h ELSE Digest(Tail(s), h * 8 + CharCode(s[1]))

generateEmbeddingCacheKey(text) == <<"embedding", EMBEDDING_MODEL, Digest(Trim(text), 0)>>

\* JSON.stringify / JSON.parse of a vector of numbers
JSONStringify(v) == [json |-> v]
JSONParse(s) == s.json

\* --------------------------------------------------------- search results
\* pagemap and metatags are optional; a metatag's og is its 'og:description'
\* (the empty text when the tag has none: both are falsy)
Plain(title, snippet) ==
    [title |-> title, snippet |-> snippet, pagemap |-> Some([metatags |-> Null])]
Tagged(title, snippet, tags) ==
    [title |-> title, snippet |-> snippet, pagemap |-> Some([metatags |-> Some(tags)])]
Bare(title, snippet) == [title |-> title, snippet |-> snippet, pagemap |-> Null]

ResultA == Plain(<<"a">>, <<"b">>)
ResultB == Tagged(<<"a">>, <<"b", " ">>, <<>>)
ResultC == Tagged(<<"b">>, <<"a">>, <<[og |-> <<"b">>]>>)
ResultD == Bare(<<"a">>, <<"a">>)
ResultPool == {ResultA, ResultB, ResultC, ResultD}

RECURSIVE SeqsUpTo(_, _)
SeqsUpTo(S, n) ==
    IF n = 0 THEN {<<>>}
    ELSE LET shorter == SeqsUpTo(S, n - 1)
         IN  shorter \cup {Append(s, x) : s \in shorter, x \in S}

ResultLists == SeqsUpTo(ResultPool, MaxResults)
Queries == {<<"a">>, <<"c">>, <<" ">>}

\* extractTextContent: [ok, text]; reading .metatags of an absent pagemap throws
extractTextContent(result) ==
    IF IsNull(result.pagemap) THEN [ok |-> FALSE, text |-> <<>>]
    ELSE LET metatags == Val(result.pagemap).metatags IN
         IF ~IsNull(metatags) /\ Len(Val(metatags)) > 0
         THEN LET ogDescription == Val(metatags)[1].og
                  description == IF Len(ogDescription) > 0
                                 THEN SubstringTo(ogDescription, OG_DESCRIPTION_MAX)
                                 ELSE result.snippet
              IN  [ok |-> TRUE,
                   text |-> TitlePrefix \o result.title \o DescriptionInfix \o description]
         ELSE [ok |-> TRUE,
               text |-> TitlePrefix \o result.title \o DescriptionInfix \o result.snippet]

\* results.map(extractTextContent): the texts, or a throw at the first bad result
ExtractAll(results) ==
    IF \E i \in 1..Len(results) : ~extractTextContent(results[i]).ok
    THEN [ok |-> FALSE, texts |-> <<>>]
    ELSE [ok |-> TRUE, texts |-> [i \in 1..Len(results) |-> extractTextContent(results[i]).text]]

\* ---------------------------------------------------------------- provider
\* The embedding model, as a stub: a fixed vector per exact text, which tells
\* texts apart that differ only in surrounding whitespace
Embed(text) == <<Count(text, "a") + Count(text, " "), Count(text, "b")>>

SingleOutcomes == {"ok", "error", "nodata"}
BatchOutcomes == {"ok", "error", "short", "long", "missing", "badlen"}

\* response.data of a batch call, as the embeddings it carries
BatchResponse(texts, outcome) ==
    LET good == [i \in 1..Len(texts) |-> Some(Embed(texts[i]))] IN
    CASE outcome = "short" -> SubSeq(good, 1, Len(good) - 1)
      [] outcome = "long" -> Append(good, Some(<<1, 1>>))
      [] outcome = "badlen" -> [good EXCEPT ![1] = Some(<<1, 0, 0>>)]
      [] OTHER -> good

\* -------------------------------------------------------------- similarity
RECURSIVE GCD(_, _)
GCD(a, b) == IF b = 0 THEN a ELSE GCD(b, a % b)

Abs(x) == IF x < 0 THEN -x ELSE x
Sign(x) == IF x < 0 THEN -1 ELSE IF x > 0 THEN 1 ELSE 0

NaN == [n |-> 0, d |-> 0]
IsNaN(s) == s.d = 0
Fraction(n, d) ==
    IF d = 0 THEN NaN
    ELSE LET g == GCD(Abs(n), d) IN [n |-> n \div g, d |-> d \div g]

RECURSIVE DotFrom(_, _, _)
DotFrom(a, b, i) == IF i > Len(a) THEN 0 ELSE a[i] * b[i] + DotFrom(a, b, i + 1)

\* cosineSimilarity(a, b), b possibly undefined: [err, val]
cosineSimilarity(a, b) ==
    IF IsNull(b) THEN [err |-> "TypeError", val |-> NaN]
    ELSE IF Len(a) # Len(Val(b)) THEN [err |-> "VectorLength", val |-> NaN]
    ELSE LET dotProduct == DotFrom(a, Val(b), 1)
             normA == DotFrom(a, a, 1)
             normB == DotFrom(Val(b), Val(b), 1)
         IN  [err |-> "",
              val |-> Fraction(Sign(dotProduct) * dotProduct * dotProduct, normA * normB)]

\* x >= y on similarities (false when either is NaN, as in IEEE 754)
SimGeq(x, y) == ~IsNaN(x) /\ ~IsNaN(y) /\ x.n * y.d >= y.n * x.d

\* the comparator with its operands swapped: (a, b) => a.similarity - b.similarity
CompareFnAscending(a, b) ==
    IF IsNaN(a.similarity) \/ IsNaN(b.similarity) THEN 0
    ELSE Sign(a.similarity.n * b.similarity.d - b.similarity.n * a.similarity.d)

\* (a, b) => b.similarity - a.similarity, as its sign; NaN counts as +0 in sort
CompareFn(a, b) ==
    IF IsNaN(a.similarity) \/ IsNaN(b.similarity) THEN 0
    ELSE Sign(b.similarity.n * a.similarity.d - a.similarity.n * b.similarity.d)

\* Array.prototype.sort on a short array: binary insertion (stable)
RECURSIVE InsertionPoint(_, _, _, _)
InsertionPoint(sorted, pivot, left, right) ==
    IF left >= right THEN left
    ELSE LET mid == left + ((right - left) \div 2) IN
         IF CompareFn(pivot, sorted[mid + 1]) < 0
         THEN InsertionPoint(sorted, pivot, left, mid)
         ELSE InsertionPoint(sorted, pivot, mid + 1, right)

InsertAt(s, pos, x) == SubSeq(s, 1, pos) \o <<x>> \o SubSeq(s, pos + 1, Len(s))

RECURSIVE SortFrom(_, _)
SortFrom(sorted, rest) ==
    IF Len(rest) = 0 THEN sorted
    ELSE SortFrom(InsertAt(sorted, InsertionPoint(sorted, Head(rest), 0, Len(sorted)),
                           Head(rest)),
                  Tail(rest))

SortBySimilarity(list) == SortFrom(<<>>, list)

\* ------------------------------------------------------------------- state
VARIABLES
    variant,      \* which engine is deployed: "redis" or "mem"
    args,         \* args[p]: the query and results invocation p is called with
    isConnected,  \* the module flag of the Redis service
    life,         \* life[c]: caller c of initRedis / closeRedis: "idle", or awaiting
                  \* redis.connect() ("connecting") or redis.quit() ("quitting")
    connOpen,     \* the connection of the client: a connect has completed and no
                  \* quit has been started since
    cache,        \* the Redis store: key -> [ttl, value]
    memCache,     \* the caller's EmbeddingCache object ("mem"): query -> vector
    inv,          \* inv[p]: the state of invocation p
    gen,          \* the invocation of generateSearchQueries
    sg            \* the invocation of searchGoogle

vars == <<variant, args, isConnected, life, connOpen, cache, memCache, inv, gen, sg>>

Procs == 1..NProcs
Callers == 1..NCallers
Variants == {"redis", "mem"}

Inputs == [query : Queries, results : ResultLists]

NoPrev == [valid |-> FALSE, ret |-> <<>>]

\* An invocation not running.  hits: the embeddings array after the cache
\* reads; miss: uncachedIndices; fresh: freshEmbeddings; embs: the array
\* getEmbeddingsBatch returns (batched: it has returned).  calls, gets, sets,
\* cfail: the provider calls, cache reads and writes issued, and whether a
\* cache operation failed.  prev: what the previous invocation returned.
\* op: the exported function called ("rank", "quickRank", "top"); want, topN:
\* its useCache and topN arguments; useCache: the option rankSearchResults
\* runs with; ret: what rankSearchResults returns; out: what op returns.
Idle ==
    [pc |-> "idle", op |-> "none", useCache |-> FALSE, qEmb |-> <<>>,
     texts |-> <<>>, hits |-> <<>>, miss |-> <<>>, fresh |-> <<>>, embs |-> <<>>,
     idx |-> 0, batched |-> FALSE, status |-> "none", err |-> "", ret |-> <<>>,
     calls |-> <<>>, gets |-> 0, sets |-> 0, cfail |-> FALSE, prev |-> NoPrev,
     want |-> FALSE, topN |-> 0, out |-> <<>>]

\* generateSearchQueries not running
GenIdle ==
    [pc |-> "idle", status |-> "none", err |-> "", content |-> <<>>, ret |-> <<>>]

\* searchGoogle not running.  tasks[i]: the callback of queries.map for query
\* i, with what its cache read gave (cached; rfail: the read threw), how the
\* search request ended (http: "none" while not requested; results: what it
\* answered), whether the cache write threw (wfail), and what it returns (out)
SgTask ==
    [pc |-> "get", cached |-> <<>>, rfail |-> FALSE, http |-> "none", results |-> <<>>,
     wfail |-> FALSE, out |-> <<>>]

SgIdle ==
    [pc |-> "idle", queries |-> <<>>, tasks |-> <<>>, status |-> "none", err |-> "",
     ret |-> <<>>]

\* ------------------------------------------------------------ the Redis store
CacheHas(c, key) == key \in DOMAIN c

\* redis.setEx(key, ttl, value)
SetEx(c, key, ttl, value) ==
    [k \in DOMAIN c \cup {key} |-> IF k = key THEN [ttl |-> ttl, value |-> value] ELSE c[k]]

\* getCachedEmbedding once redis.get has answered (ok) or thrown: the parsed
\* vector, or null
CachedEmbedding(c, text, ok) ==
    LET cacheKey == generateEmbeddingCacheKey(text) IN
    IF ok /\ CacheHas(c, cacheKey) THEN Some(JSONParse(c[cacheKey].value)) ELSE Null

\* setCachedEmbedding once redis.setEx has answered (ok) or thrown; an undefined
\* embedding makes JSON.stringify return undefined and setEx throw
CacheAfterSet(c, text, embedding, ok) ==
    IF ok /\ ~IsNull(embedding)
    THEN SetEx(c, generateEmbeddingCacheKey(text), EMBEDDING_CACHE_DURATION,
               JSONStringify(Val(embedding)))
    ELSE c

\* -------------------------------------------------- segments of an invocation
Fail(r, e) == [r EXCEPT !.pc = "done", !.status = "error", !.err = e, !.ret = <<>>]

\* Array.prototype.slice(0, end)
Slice(list, end) ==
    SubSeq(list, 1, IF end < 0 THEN Len(list) + end ELSE Min(end, Len(list)))

\* rankSearchResults returns list; getTopResults goes on to ranked.slice(0, topN)
Succeed(r, list) ==
    [r EXCEPT !.pc = "done", !.status = "ok", !.ret = list,
              !.out = IF r.op = "top" THEN Slice(list, r.topN) ELSE list]

At(s, i) == IF i \in 1..Len(s) THEN s[i] ELSE Null

RECURSIVE FirstBad(_, _)
FirstBad(sims, i) == IF sims[i].err # "" THEN i ELSE FirstBad(sims, i + 1)

\* a ranking that leaves out the results it cannot score instead of throwing
ScoreSkipUnscored(r, a) ==
    LET n == Len(a.results)
        all == [i \in 1..n |->
                   [result |-> a.results[i],
                    sim |-> cosineSimilarity(r.qEmb, At(r.embs, i))]]
        kept == SelectSeq(all, LAMBDA e : e.sim.err = "")
    IN  Succeed(r, SortBySimilarity(
            [k \in 1..Len(kept) |->
                [result |-> kept[k].result, similarity |-> kept[k].sim.val]]))

\* results.map(... cosineSimilarity ...) and the sort
Score(r, a) ==
    LET n == Len(a.results)
        sims == [i \in 1..n |-> cosineSimilarity(r.qEmb, At(r.embs, i))]
    IN  IF \E i \in 1..n : sims[i].err # ""
        THEN Fail(r, sims[FirstBad(sims, 1)].err)
        ELSE Succeed(r, SortBySimilarity(
                 [i \in 1..n |-> [result |-> a.results[i], similarity |-> sims[i].val]]))

\* openaiClient.embeddings.create is called: the invocation awaits the provider
StartSingleCall(r, a) ==
    [r EXCEPT !.pc = "qapi",
              !.calls = Append(@, [kind |-> "single", input |-> <<a.query>>])]
StartBatchCall(r, texts) ==
    [r EXCEPT !.pc = "bapi",
              !.calls = Append(@, [kind |-> "batch", input |-> texts])]

\* after the query embedding: extract the texts and enter getEmbeddingsBatch
StartBatch(r, a, v, connected) ==
    LET ex == ExtractAll(a.results) IN
    IF ~ex.ok THEN Fail(r, "TypeError")
    ELSE LET r1 == [r EXCEPT !.texts = ex.texts] IN
         IF v = "redis" /\ r.useCache
         THEN IF ~connected THEN Fail(r1, "RedisNotConnected")
              ELSE [r1 EXCEPT !.pc = "bget", !.idx = 1, !.gets = @ + Len(ex.texts)]
         ELSE StartBatchCall(r1, ex.texts)

\* rankSearchResults without its early return for an empty list
RankEntryRedisNoEmptyCheck(r, a, connected) ==
    IF IsBlank(a.query) THEN Fail(r, "EmptyText")
    ELSE IF r.useCache
         THEN IF ~connected THEN Fail(r, "RedisNotConnected")
              ELSE [r EXCEPT !.pc = "qget", !.gets = @ + 1]
         ELSE StartSingleCall(r, a)

\* rankSearchResults up to its first await, part_000
RankEntryRedis(r, a, connected) ==
    IF Len(a.results) = 0 THEN Succeed(r, <<>>)
    ELSE IF IsBlank(a.query) THEN Fail(r, "EmptyText")
    ELSE IF r.useCache
         THEN IF ~connected THEN Fail(r, "RedisNotConnected")
              ELSE [r EXCEPT !.pc = "qget", !.gets = @ + 1]
         ELSE StartSingleCall(r, a)

\* rankSearchResults up to its first await, rank-results.ts
RankEntryMem(r, a, mc, connected) ==
    IF Len(a.results) = 0 THEN Succeed(r, <<>>)
    ELSE IF r.useCache /\ a.query \in DOMAIN mc
         THEN StartBatch([r EXCEPT !.qEmb = mc[a.query]], a, "mem", connected)
         ELSE StartSingleCall(r, a)

\* every index taken as uncached: the whole list goes to the provider
UncachedIndicesAll(embeddings, i) == [k \in 1..Len(embeddings) |-> k]

\* uncachedIndices: the indices whose cache read gave null
RECURSIVE UncachedIndices(_, _)
UncachedIndices(embeddings, i) ==
    IF i > Len(embeddings) THEN <<>>
    ELSE (IF IsNull(embeddings[i]) THEN <<i>> ELSE <<>>)
         \o UncachedIndices(embeddings, i + 1)

TextsAt(texts, indices) == [j \in 1..Len(indices) |-> texts[indices[j]]]

\* uncachedIndices.forEach((originalIndex, i) => embeddings[originalIndex] = fresh[i])
FillFresh(embeddings, indices, freshEmbeddings) ==
    [k \in 1..Len(embeddings) |->
        IF \E j \in 1..Len(indices) : indices[j] = k
        THEN At(freshEmbeddings, CHOOSE j \in 1..Len(indices) : indices[j] = k)
        ELSE embeddings[k]]

\* the cache reads of getEmbeddingsBatch are in: partition and go on
Reconcile(r, a) ==
    LET uncached == UncachedIndices(r.hits, 1) IN
    IF Len(uncached) > 0
    THEN StartBatchCall([r EXCEPT !.miss = uncached], TextsAt(r.texts, uncached))
    ELSE Score([r EXCEPT !.embs = r.hits, !.batched = TRUE], a)

\* the ranking sorted into the caller's own array: results.sort(...)
InputSortedInPlace(results, r) ==
    IF r.status = "ok" /\ Len(r.ret) = Len(results)
    THEN [i \in 1..Len(results) |-> r.ret[i].result]
    ELSE results

\* the caller's array after the segment that ends invocation r: results.map
\* builds a new array of new objects ({...result, similarity}), and sort
\* reorders that array
InputAfterSort(results, r) == results

\* quickRank passing useCache: true
QuickRankUseCacheOn == TRUE

\* quickRank's option
QuickRankUseCache == FALSE

\* ----------------------------------------------------------------- actions
Enter(p, op, useCache) ==
    /\ inv[p].pc = "idle"
    /\ LET r == [Idle EXCEPT !.op = op, !.useCache = useCache, !.prev = inv[p].prev]
       IN  inv' = [inv EXCEPT ![p] =
                      IF variant = "redis"
                      THEN RankEntryRedis(r, args[p], isConnected)
                      ELSE RankEntryMem(r, args[p], memCache, isConnected)]
    /\ UNCHANGED <<variant, args, isConnected, life, connOpen, cache, memCache, gen, sg>>

RankCall(p, useCache) == Enter(p, "rank", useCache)

\* the option getTopResults hands to rankSearchResults: part_000 passes
\* { useCache }; rank-results.ts has no such parameter and passes no options
TopUseCache(v, useCache) == IF v = "redis" THEN useCache ELSE FALSE

\* getTopResults(query, results, topN, useCache) up to its first await
TopResultsCall(p, topN, useCache) ==
    /\ inv[p].pc = "idle"
    /\ LET r == [Idle EXCEPT !.op = "top", !.want = useCache, !.topN = topN,
                             !.useCache = TopUseCache(variant, useCache),
                             !.prev = inv[p].prev]
       IN  inv' = [inv EXCEPT ![p] =
                      IF variant = "redis"
                      THEN RankEntryRedis(r, args[p], isConnected)
                      ELSE RankEntryMem(r, args[p], memCache, isConnected)]
    /\ UNCHANGED <<variant, args, isConnected, life, connOpen, cache, memCache, gen, sg>>

QuickRankCall(p) == Enter(p, "quickRank", QuickRankUseCache)

\* redis.get for the query answers
QueryCacheReply(p, ok) ==
    /\ inv[p].pc = "qget"
    /\ LET r == [inv[p] EXCEPT !.cfail = @ \/ ~ok]
           cached == CachedEmbedding(cache, args[p].query, ok)
       IN  inv' = [inv EXCEPT ![p] =
                      IF ~IsNull(cached)
                      THEN StartBatch([r EXCEPT !.qEmb = Val(cached)], args[p],
                                      variant, isConnected)
                      ELSE StartSingleCall(r, args[p])]
    /\ UNCHANGED <<variant, args, isConnected, life, connOpen, cache, memCache, gen, sg>>

\* the provider answers the single-text call
QueryApiReply(p, outcome) ==
    /\ inv[p].pc = "qapi"
    /\ LET r == inv[p]
           a == args[p]
           got == [r EXCEPT !.qEmb = Embed(a.query)]
       IN  /\ inv' = [inv EXCEPT ![p] =
                  CASE outcome = "error" -> Fail(r, "ProviderError")
                    [] outcome = "nodata" -> Fail(r, "NoEmbedding")
                    [] OTHER ->
                       IF variant = "redis" /\ r.useCache
                       THEN IF ~isConnected THEN Fail(r, "RedisNotConnected")
                            ELSE [got EXCEPT !.pc = "qset", !.sets = @ + 1]
                       ELSE StartBatch(got, a, variant, isConnected)]
           /\ memCache' = IF outcome = "ok" /\ variant = "mem" /\ r.useCache
                          THEN [q \in DOMAIN memCache \cup {a.query} |->
                                   IF q = a.query THEN Embed(a.query) ELSE memCache[q]]
                          ELSE memCache
    /\ UNCHANGED <<variant, args, isConnected, life, connOpen, cache, gen, sg>>

\* redis.setEx for the query answers
QueryCacheSetReply(p, ok) ==
    /\ inv[p].pc = "qset"
    /\ cache' = CacheAfterSet(cache, args[p].query, Some(inv[p].qEmb), ok)
    /\ inv' = [inv EXCEPT ![p] =
                  StartBatch([inv[p] EXCEPT !.cfail = @ \/ ~ok], args[p], variant,
                             isConnected)]
    /\ UNCHANGED <<variant, args, isConnected, life, connOpen, memCache, gen, sg>>

\* redis.get for candidate text idx answers
BatchCacheReply(p, ok) ==
    /\ inv[p].pc = "bget"
    /\ LET r == inv[p]
           r1 == [r EXCEPT !.cfail = @ \/ ~ok,
                           !.hits = Append(@, CachedEmbedding(cache, r.texts[r.idx], ok))]
       IN  inv' = [inv EXCEPT ![p] =
                      IF r.idx < Len(r.texts) THEN [r1 EXCEPT !.idx = @ + 1]
                      ELSE Reconcile(r1, args[p])]
    /\ args' = [args EXCEPT ![p].results = InputAfterSort(@, inv'[p])]
    /\ UNCHANGED <<variant, isConnected, life, connOpen, cache, memCache, gen, sg>>

\* the provider answers the batch call
BatchApiReply(p, outcome) ==
    /\ inv[p].pc = "bapi"
    /\ LET r == inv[p]
           requested == r.calls[Len(r.calls)].input
           got == [r EXCEPT !.fresh = BatchResponse(requested, outcome)]
       IN  inv' = [inv EXCEPT ![p] =
                  CASE outcome = "error" -> Fail(r, "ProviderError")
                    [] outcome = "missing" -> Fail(r, "MissingEmbedding")
                    [] OTHER ->
                       IF variant = "redis" /\ r.useCache
                       THEN IF ~isConnected THEN Fail(got, "RedisNotConnected")
                            ELSE [got EXCEPT !.pc = "bset", !.idx = 1,
                                             !.sets = @ + Len(requested)]
                       ELSE Score([got EXCEPT !.embs = got.fresh, !.batched = TRUE],
                                  args[p])]
    /\ args' = [args EXCEPT ![p].results = InputAfterSort(@, inv'[p])]
    /\ UNCHANGED <<variant, isConnected, life, connOpen, cache, memCache, gen, sg>>

\* redis.setEx for fresh embedding idx answers
BatchCacheSetReply(p, ok) ==
    /\ inv[p].pc = "bset"
    /\ LET r == inv[p]
           text == r.texts[r.miss[r.idx]]
           r1 == [r EXCEPT !.cfail = @ \/ ~ok]
       IN  /\ cache' = CacheAfterSet(cache, text, At(r.fresh, r.idx), ok)
           /\ inv' = [inv EXCEPT ![p] =
                  IF r.idx < Len(r.miss) THEN [r1 EXCEPT !.idx = @ + 1]
                  ELSE Score([r1 EXCEPT !.embs = FillFresh(r.hits, r.miss, r.fresh),
                                        !.batched = TRUE],
                             args[p])]
           /\ args' = [args EXCEPT ![p].results = InputAfterSort(@, inv'[p])]
    /\ UNCHANGED <<variant, isConnected, life, connOpen, memCache, gen, sg>>

\* the caller takes the outcome; the next call of this caller may follow
Return(p) ==
    /\ inv[p].pc = "done"
    /\ inv' = [inv EXCEPT ![p] =
                  [Idle EXCEPT !.prev =
                      [valid |-> inv[p].status = "ok" /\ inv[p].op = "rank"
                                 /\ inv[p].useCache /\ ~inv[p].cfail,
                       ret |-> inv[p].ret]]]
    /\ UNCHANGED <<variant, args, isConnected, life, connOpen, cache, memCache, gen, sg>>

\* initRedis up to await redis.connect()
InitRedisCall(c) ==
    /\ life[c] = "idle"
    /\ ~isConnected
    /\ life' = [life EXCEPT ![c] = "connecting"]
    /\ UNCHANGED <<variant, args, isConnected, connOpen, cache, memCache, inv, gen, sg>>

\* initRedis after the await
InitRedisResume(c) ==
    /\ life[c] = "connecting"
    /\ isConnected' = TRUE
    /\ connOpen' = TRUE
    /\ life' = [life EXCEPT ![c] = "idle"]
    /\ UNCHANGED <<variant, args, cache, memCache, inv, gen, sg>>

\* closeRedis up to await redis.quit()
CloseRedisCall(c) ==
    /\ life[c] = "idle"
    /\ isConnected
    /\ life' = [life EXCEPT ![c] = "quitting"]
    /\ connOpen' = FALSE
    /\ UNCHANGED <<variant, args, isConnected, cache, memCache, inv, gen, sg>>

\* closeRedis after the await
CloseRedisResume(c) ==
    /\ life[c] = "quitting"
    /\ isConnected' = FALSE
    /\ life' = [life EXCEPT ![c] = "idle"]
    /\ UNCHANGED <<variant, args, connOpen, cache, memCache, inv, gen, sg>>

\* getRedisClient(): the client, or the throw
getRedisClient(connected) == IF connected THEN "client" ELSE "RedisNotConnected"

\* --------------------------------------------------- generateSearchQueries
\* The answer of the language model is a text of tokens: "{" "}" "[" "]" ","
\* as in JSON, "q" the member name "queries":, "k" another member name, "s" a
\* string literal, "n" a number literal, " " white space, "x" a character of
\* prose, "U" the word Unfulfilled, "N" the word UNDEFINED.
Tok(t, i) == IF i \in 1..Len(t) THEN t[i] ELSE "eof"

NoParse == [ok |-> FALSE, t |-> "none", items |-> <<>>, next |-> 0]
Parsed(t, items, next) == [ok |-> TRUE, t |-> t, items |-> items, next |-> next]
Stripped(v) == [t |-> v.t, items |-> v.items]

\* JSON.parse, by recursive descent: a value at position i of t
RECURSIVE ParseValue(_, _)
RECURSIVE ParseItems(_, _, _)
RECURSIVE ParseMembers(_, _, _)
ParseValue(t, i) ==
    CASE Tok(t, i) = "s" -> Parsed("string", <<>>, i + 1)
      [] Tok(t, i) = "n" -> Parsed("number", <<>>, i + 1)
      [] Tok(t, i) = "[" ->
            IF Tok(t, i + 1) = "]" THEN Parsed("array", <<>>, i + 2)
            ELSE ParseItems(t, i + 1, <<>>)
      [] Tok(t, i) = "{" ->
            IF Tok(t, i + 1) = "}" THEN Parsed("object", <<>>, i + 2)
            ELSE ParseMembers(t, i + 1, <<>>)
      [] OTHER -> NoParse

ParseItems(t, i, acc) ==
    LET v == ParseValue(t, i) IN
    IF ~v.ok THEN NoParse
    ELSE CASE Tok(t, v.next) = "," -> ParseItems(t, v.next + 1, Append(acc, Stripped(v)))
           [] Tok(t, v.next) = "]" -> Parsed("array", Append(acc, Stripped(v)), v.next + 1)
           [] OTHER -> NoParse

ParseMembers(t, i, acc) ==
    IF Tok(t, i) \notin {"q", "k"} THEN NoParse
    ELSE LET v == ParseValue(t, i + 1)
             member == [key |-> Tok(t, i), value |-> Stripped(v)]
         IN  IF ~v.ok THEN NoParse
             ELSE CASE Tok(t, v.next) = "," ->
                          ParseMembers(t, v.next + 1, Append(acc, member))
                    [] Tok(t, v.next) = "}" ->
                          Parsed("object", Append(acc, member), v.next + 1)
                    [] OTHER -> NoParse

\* JSON.parse(text): white space is skipped, the whole text must be one value
JSONParseText(text) ==
    LET t == SelectSeq(text, LAMBDA c : c # " ")
        v == ParseValue(t, 1)
    IN  IF v.ok /\ v.next = Len(t) + 1 THEN v ELSE NoParse

\* text.match(/\{[\s\S]*\}/): from the first "{" to the last "}" after it
Braces(text, c) == {i \in 1..Len(text) : text[i] = c}
First(S) == CHOOSE i \in S : \A j \in S : i <= j
Last(S) == CHOOSE i \in S : \A j \in S : j <= i
JsonMatch(text) ==
    IF Braces(text, "{") = {} \/ {j \in Braces(text, "}") : j > First(Braces(text, "{"))} = {}
    THEN Null
    ELSE Some(SubSeq(text, First(Braces(text, "{")), Last(Braces(text, "}"))))

\* parsedResponse.queries: the value of the last member named queries
QueriesOf(object) ==
    LET at == {i \in 1..Len(object.items) : object.items[i].key = "q"} IN
    IF at = {} THEN Null ELSE Some(object.items[Last(at)].value)

\* a length check that lets every list pass
TooManyNever(queries) == FALSE

\* parsedResponse.queries.length > 4
TooMany(queries) == Len(queries) > MAX_QUERIES

\* { queries: ['Unfulfilled'] }
Sentinel == <<[t |-> "Unfulfilled", items |-> <<>>]>>

GenFail(g, e) == [g EXCEPT !.pc = "done", !.status = "error", !.err = e, !.ret = <<>>]
GenReturnWith(g, queries) == [g EXCEPT !.pc = "done", !.status = "ok", !.ret = queries]

\* generateSearchQueries from the answer of the model on: content is
\* response.choices[0]?.message?.content, possibly absent
Decompose(g, content) ==
    LET text == IF IsNull(content) THEN <<>> ELSE Trim(Val(content))
        g1 == [g EXCEPT !.content = text]
        jsonMatch == JsonMatch(text)
    IN  IF text = <<"U">> \/ text = <<"N">> THEN GenReturnWith(g1, Sentinel)
        ELSE IF IsNull(jsonMatch) THEN GenFail(g1, "NoJson")
        ELSE LET parsedResponse == JSONParseText(Val(jsonMatch)) IN
             IF ~parsedResponse.ok THEN GenFail(g1, "SyntaxError")
             ELSE LET queries == QueriesOf(parsedResponse) IN
                  IF IsNull(queries) \/ Val(queries).t # "array"
                  THEN GenFail(g1, "InvalidStructure")
                  ELSE IF TooMany(Val(queries).items) THEN GenFail(g1, "TooManyQueries")
                  ELSE GenReturnWith(g1, Val(queries).items)

\* what the model can answer
QueriesObject(k) ==
    <<"{", "q", "[">> \o [i \in 1..(IF k = 0 THEN 0 ELSE 2 * k - 1) |->
                            IF i % 2 = 1 THEN "s" ELSE ","] \o <<"]", "}">>

ModelBodies ==
    {QueriesObject(k) : k \in 0..MaxModelQueries}
    \cup {<<>>, <<"U">>, <<"N">>, <<"x">>, <<"U", "x">>,
          <<"{", "}">>, <<"{", "k", "s", "}">>,
          <<"{", "q", "s", "}">>, <<"{", "q", "n", "}">>, <<"{", "q", "{", "}", "}">>,
          <<"{", "k", "n", ",", "q", "[", "s", "]", "}">>,
          <<"{", "q", "[", "s", "]", ",", "q", "n", "}">>,
          <<"{", "q", "[", "n", ",", "[", "s", "]", "]", "}">>,
          <<"{", "q", "[", "s", ",", "]", "}">>, <<"{", "q", "[", "s", "}">>,
          <<"{", "x", "}">>, <<"[", "s", "]">>, <<"}", "{">>,
          QueriesObject(1) \o <<"x">> \o QueriesObject(1)}

Margins == {<<>>, <<" ">>, <<"x">>, <<"x", " ">>}

ModelContents == {pre \o body \o post : pre \in Margins, body \in ModelBodies, post \in Margins}

\* generateSearchQueries up to await readFile
GenerateCall ==
    /\ gen.pc = "idle"
    /\ gen' = [GenIdle EXCEPT !.pc = "prompt"]
    /\ UNCHANGED <<variant, args, isConnected, life, connOpen, cache, memCache, inv, sg>>

\* readFile answers; on success the model is called
GenPromptReply(ok) ==
    /\ gen.pc = "prompt"
    /\ gen' = IF ok THEN [gen EXCEPT !.pc = "model"] ELSE GenFail(gen, "ReadFile")
    /\ UNCHANGED <<variant, args, isConnected, life, connOpen, cache, memCache, inv, sg>>

\* chat.completions.create answers: an error, or a response whose first
\* choice, if any, carries content
GenModelReply(outcome, content) ==
    /\ gen.pc = "model"
    /\ gen' = IF outcome = "error" THEN GenFail(gen, "ApiError")
              ELSE Decompose(gen, content)
    /\ UNCHANGED <<variant, args, isConnected, life, connOpen, cache, memCache, inv, sg>>

\* the caller takes the outcome
GenReturn ==
    /\ gen.pc = "done"
    /\ gen' = GenIdle
    /\ UNCHANGED <<variant, args, isConnected, life, connOpen, cache, memCache, inv, sg>>

\* ------------------------------------------------------------ searchGoogle
\* String.prototype.toLowerCase
ToLowerCase(s) == [i \in 1..Len(s) |-> IF s[i] = "A" THEN "a" ELSE s[i]]

\* replace(/\s+/g, '-'): every run of white space becomes one dash
RECURSIVE DashSpaces(_)
DashSpaces(s) ==
    IF Len(s) = 0 THEN <<>>
    ELSE IF s[1] = " " THEN <<"-">> \o DashSpaces(TrimStart(s))
    ELSE <<s[1]>> \o DashSpaces(Tail(s))

generateCacheKey(query) == <<"search", DashSpaces(ToLowerCase(query))>>

\* the search provider, as a stub: the items it finds for a query
SearchItems(query) ==
    CASE query = <<"a">> -> <<ResultA>>
      [] query = <<"A">> -> <<ResultC>>
      [] OTHER -> <<ResultC, ResultA>>

HttpOutcomes == {"items", "noitems", "error"}

\* searchResults.flat()
RECURSIVE Flat(_)
Flat(lists) == IF Len(lists) = 0 THEN <<>> ELSE Head(lists) \o Flat(Tail(lists))

\* Promise.all resolves once every callback has returned
FanIn(g) ==
    IF \A i \in 1..Len(g.tasks) : g.tasks[i].pc = "done"
    THEN [g EXCEPT !.pc = "done", !.status = "ok",
                   !.ret = Flat([i \in 1..Len(g.tasks) |-> g.tasks[i].out])]
    ELSE g

\* a callback that gives up with no results when its cache read throws
AfterCacheReadGiveUp(t, cachedResults, ok) ==
    IF ~ok THEN [t EXCEPT !.pc = "done", !.rfail = TRUE, !.out = <<>>]
    ELSE IF ~IsNull(cachedResults)
    THEN [t EXCEPT !.pc = "done", !.cached = cachedResults, !.out = Val(cachedResults)]
    ELSE [t EXCEPT !.pc = "http", !.http = "pending"]

\* the callback after its cache read: the cached results if any, else (also
\* when the read threw) the search request
AfterCacheRead(t, cachedResults, ok) ==
    IF ~IsNull(cachedResults)
    THEN [t EXCEPT !.pc = "done", !.cached = cachedResults, !.out = Val(cachedResults)]
    ELSE [t EXCEPT !.pc = "http", !.rfail = ~ok, !.http = "pending"]

\* searchGoogle up to the first await of each callback
SearchGoogleCall(queries) ==
    /\ sg.pc = "idle"
    /\ sg' = IF getRedisClient(isConnected) # "client"
             THEN [SgIdle EXCEPT !.pc = "done", !.queries = queries, !.status = "error",
                                 !.err = "RedisNotConnected"]
             ELSE FanIn([SgIdle EXCEPT !.pc = "running", !.queries = queries,
                                       !.tasks = [i \in 1..Len(queries) |-> SgTask]])
    /\ UNCHANGED <<variant, args, isConnected, life, connOpen, cache, memCache, inv, gen>>

\* redis.get of callback i answers
SearchCacheReply(i, ok) ==
    /\ sg.pc = "running"
    /\ i \in 1..Len(sg.tasks)
    /\ sg.tasks[i].pc = "get"
    /\ LET cacheKey == generateCacheKey(sg.queries[i])
           cachedResults == IF ok /\ CacheHas(cache, cacheKey)
                            THEN Some(JSONParse(cache[cacheKey].value))
                            ELSE Null
       IN  sg' = FanIn([sg EXCEPT !.tasks[i] = AfterCacheRead(@, cachedResults, ok)])
    /\ UNCHANGED <<variant, args, isConnected, life, connOpen, cache, memCache, inv, gen>>

\* axios.get of callback i answers
SearchHttpReply(i, outcome) ==
    /\ sg.pc = "running"
    /\ i \in 1..Len(sg.tasks)
    /\ sg.tasks[i].pc = "http"
    /\ LET results == IF outcome = "items" THEN SearchItems(sg.queries[i]) ELSE <<>> IN
       sg' = FanIn([sg EXCEPT !.tasks[i] =
                       IF outcome = "error"
                       THEN [@ EXCEPT !.pc = "done", !.http = outcome, !.out = <<>>]
                       ELSE [@ EXCEPT !.pc = "set", !.http = outcome, !.results = results]])
    /\ UNCHANGED <<variant, args, isConnected, life, connOpen, cache, memCache, inv, gen>>

\* redis.setEx of callback i answers
SearchCacheSetReply(i, ok) ==
    /\ sg.pc = "running"
    /\ i \in 1..Len(sg.tasks)
    /\ sg.tasks[i].pc = "set"
    /\ cache' = IF ok
                THEN SetEx(cache, generateCacheKey(sg.queries[i]), CACHE_DURATION,
                           JSONStringify(sg.tasks[i].results))
                ELSE cache
    /\ sg' = FanIn([sg EXCEPT !.tasks[i] =
                       [@ EXCEPT !.pc = "done", !.wfail = ~ok,
                                 !.out = sg.tasks[i].results]])
    /\ UNCHANGED <<variant, args, isConnected, life, connOpen, memCache, inv, gen>>

\* the caller takes the outcome
SearchReturn ==
    /\ sg.pc = "done"
    /\ sg' = SgIdle
    /\ UNCHANGED <<variant, args, isConnected, life, connOpen, cache, memCache, inv, gen>>

\* ------------------------------------------------------------ specifications
\* every text the pool and the queries can produce
KnownTexts ==
    Queries \cup {extractTextContent(x).text : x \in {y \in ResultPool : extractTextContent(y).ok}}

TextsOf(a) ==
    {a.query} \cup {extractTextContent(a.results[i]).text :
                       i \in {j \in 1..Len(a.results) : extractTextContent(a.results[j]).ok}}

\* the stores earlier invocations can have left for the keys of input a: under
\* a key, the embedding of a text with that key
StoresFor(a) ==
    LET keys == {generateEmbeddingCacheKey(t) : t \in {u \in TextsOf(a) : ~IsBlank(u)}}
        entries(k) == {[ttl |-> EMBEDDING_CACHE_DURATION, value |-> JSONStringify(Embed(t))] :
                          t \in {u \in KnownTexts : generateEmbeddingCacheKey(u) = k}}
    IN  UNION {{f \in [S -> UNION {entries(k) : k \in S}] : \A k \in S : f[k] \in entries(k)} :
                  S \in SUBSET keys}

\* one caller, one operation at a time, on whatever the store holds
Init ==
    /\ variant \in Variants
    /\ \E a \in Inputs :
          /\ args = [p \in Procs |-> a]
          /\ cache \in (IF variant = "redis" THEN StoresFor(a) ELSE {<<>>})
    /\ isConnected = FALSE
    /\ connOpen = FALSE
    /\ life = [c \in Callers |-> "idle"]
    /\ memCache = <<>>
    /\ inv = [p \in Procs |-> Idle]
    /\ gen = GenIdle
    /\ sg = SgIdle

Quiet == (\A c \in Callers : life[c] = "idle") /\ \A p \in Procs : inv[p].pc = "idle"

Next ==
    \/ Quiet /\ InitRedisCall(1)
    \/ InitRedisResume(1)
    \/ Quiet /\ CloseRedisCall(1)
    \/ CloseRedisResume(1)
    \/ \E useCache \in BOOLEAN : Quiet /\ RankCall(1, useCache)
    \/ Quiet /\ QuickRankCall(1)
    \/ \E ok \in BOOLEAN : QueryCacheReply(1, ok)
    \/ \E outcome \in SingleOutcomes : QueryApiReply(1, outcome)
    \/ \E ok \in BOOLEAN : QueryCacheSetReply(1, ok)
    \/ \E ok \in BOOLEAN : BatchCacheReply(1, ok)
    \/ \E outcome \in BatchOutcomes : BatchApiReply(1, outcome)
    \/ \E ok \in BOOLEAN : BatchCacheSetReply(1, ok)
    \/ Return(1)

Spec == Init /\ [][Next]_vars

\* as Spec, the caller also asking for the top results
NextTop ==
    \/ Next
    \/ \E topN \in 0..MaxTopN, useCache \in BOOLEAN :
          Quiet /\ TopResultsCall(1, topN, useCache)

SpecTop == Init /\ [][NextTop]_vars

\* two or more callers, each ranking once, whose invocations interleave at
\* every await, on a connected store that starts empty, with a provider that
\* always answers with the embedding of each text
ConcInputs ==
    [query : {<<"a">>},
     results : SeqsUpTo({ResultA, ResultB, ResultC}, MaxResults) \ {<<>>}]

InitConc ==
    /\ variant = "redis"
    /\ args \in [Procs -> ConcInputs]
    /\ isConnected = TRUE
    /\ connOpen = TRUE
    /\ life = [c \in Callers |-> "idle"]
    /\ cache = <<>>
    /\ memCache = <<>>
    /\ inv = [p \in Procs |-> Idle]
    /\ gen = GenIdle
    /\ sg = SgIdle

NextConc ==
    \E p \in Procs :
        \/ RankCall(p, TRUE)
        \/ \E ok \in BOOLEAN : QueryCacheReply(p, ok)
        \/ QueryApiReply(p, "ok")
        \/ \E ok \in BOOLEAN : QueryCacheSetReply(p, ok)
        \/ \E ok \in BOOLEAN : BatchCacheReply(p, ok)
        \/ BatchApiReply(p, "ok")
        \/ \E ok \in BOOLEAN : BatchCacheSetReply(p, ok)

SpecConc == InitConc /\ [][NextConc]_vars

\* the extractor on every shape of result: one caller ranking one result,
\* without cache, with a provider that answers
Long(n) == [i \in 1..n |-> "a"]

Descriptions == {<<>>, <<"b">>, Long(OG_DESCRIPTION_MAX), Long(OG_DESCRIPTION_MAX + 1)}

ExtractPool ==
    UNION {{Bare(<<"a">>, snippet), Plain(<<"a">>, snippet)}
           \cup {Tagged(<<"a">>, snippet, tags) :
                    tags \in SeqsUpTo({[og |-> d] : d \in Descriptions}, MaxTags)} :
           snippet \in {<<"b">>, <<"a", " ">>}}

InitExtract ==
    /\ variant \in Variants
    /\ \E x \in ExtractPool : args = [p \in Procs |-> [query |-> <<"a">>, results |-> <<x>>]]
    /\ isConnected = FALSE
    /\ connOpen = FALSE
    /\ life = [c \in Callers |-> "idle"]
    /\ cache = <<>>
    /\ memCache = <<>>
    /\ inv = [p \in Procs |-> Idle]
    /\ gen = GenIdle
    /\ sg = SgIdle

NextExtract ==
    \/ QuickRankCall(1)
    \/ QueryApiReply(1, "ok")
    \/ BatchApiReply(1, "ok")

SpecExtract == InitExtract /\ [][NextExtract]_vars

\* query decomposition alone, on every answer of the model
InitGen ==
    /\ variant = "redis"
    /\ args = [p \in Procs |-> [query |-> <<"a">>, results |-> <<>>]]
    /\ isConnected = FALSE
    /\ connOpen = FALSE
    /\ life = [c \in Callers |-> "idle"]
    /\ cache = <<>>
    /\ memCache = <<>>
    /\ inv = [p \in Procs |-> Idle]
    /\ gen = GenIdle
    /\ sg = SgIdle

NextGen ==
    \/ GenerateCall
    \/ \E ok \in BOOLEAN : GenPromptReply(ok)
    \/ GenModelReply("error", Null)
    \/ GenModelReply("ok", Null)
    \/ \E content \in ModelContents : GenModelReply("ok", Some(content))
    \/ GenReturn

SpecGen == InitGen /\ [][NextGen]_vars

\* the life cycle of the connection under callers whose initRedis and
\* closeRedis overlap, while one caller ranks with the cache
InitLife ==
    /\ variant = "redis"
    /\ args = [p \in Procs |-> [query |-> <<"a">>, results |-> <<ResultA>>]]
    /\ isConnected = FALSE
    /\ connOpen = FALSE
    /\ life = [c \in Callers |-> "idle"]
    /\ cache = <<>>
    /\ memCache = <<>>
    /\ inv = [p \in Procs |-> Idle]
    /\ gen = GenIdle
    /\ sg = SgIdle

NextLife ==
    \/ \E c \in Callers :
          \/ InitRedisCall(c)
          \/ InitRedisResume(c)
          \/ CloseRedisCall(c)
          \/ CloseRedisResume(c)
    \/ RankCall(1, TRUE)
    \/ \E ok \in BOOLEAN : QueryCacheReply(1, ok)
    \/ QueryApiReply(1, "ok")
    \/ \E ok \in BOOLEAN : QueryCacheSetReply(1, ok)
    \/ \E ok \in BOOLEAN : BatchCacheReply(1, ok)
    \/ BatchApiReply(1, "ok")
    \/ \E ok \in BOOLEAN : BatchCacheSetReply(1, ok)
    \/ Return(1)

SpecLife == InitLife /\ [][NextLife]_vars

\* searches one after the other, the callbacks of each interleaving at every
\* await, on a store that starts empty and keeps what earlier searches wrote
QueryPool == {<<"a">>, <<"A">>, <<"b", " ", " ", "b">>}

InitSearch ==
    /\ variant = "redis"
    /\ args = [p \in Procs |-> [query |-> <<"a">>, results |-> <<>>]]
    /\ isConnected \in BOOLEAN
    /\ connOpen = isConnected
    /\ life = [c \in Callers |-> "idle"]
    /\ cache = <<>>
    /\ memCache = <<>>
    /\ inv = [p \in Procs |-> Idle]
    /\ gen = GenIdle
    /\ sg = SgIdle

NextSearch ==
    \/ \E queries \in SeqsUpTo(QueryPool, MaxSearchQueries) : SearchGoogleCall(queries)
    \/ \E i \in 1..MaxSearchQueries :
          \/ \E ok \in BOOLEAN : SearchCacheReply(i, ok)
          \/ \E outcome \in HttpOutcomes : SearchHttpReply(i, outcome)
          \/ \E ok \in BOOLEAN : SearchCacheSetReply(i, ok)
    \/ SearchReturn

SpecSearch == InitSearch /\ [][NextSearch]_vars

\* ------------------------------------------------------------------ claims
Done(p) == inv[p].pc = "done"
Returned(p) == Done(p) /\ inv[p].status = "ok"
NumResults(p) == Len(args[p].results)

BatchCalls(r) == SelectSeq(r.calls, LAMBDA c : c.kind = "batch")
SingleCalls(r) == SelectSeq(r.calls, LAMBDA c : c.kind = "single")

\* the indices the cache reads missed, and the j-th of them in input order
MissSet(r) == {i \in 1..Len(r.hits) : IsNull(r.hits[i])}
NthMiss(r, j) == CHOOSE i \in MissSet(r) : Cardinality({k \in MissSet(r) : k < i}) = j - 1
MissRank(r, i) == Cardinality({k \in MissSet(r) : k <= i})

Occurrences(s, x) == Cardinality({i \in 1..Len(s) : s[i] = x})

\* C1: when getEmbeddingsBatch has returned with caching enabled, at most one
\* batch call was issued; none if every text hit; otherwise its input is the
\* missed texts in input order; and the returned array has one position per
\* text, holding the cached vector for a hit and the provider's vector for
\* that miss otherwise.
C1_BatchReconciliation ==
    \A p \in Procs :
        LET r == inv[p] IN
        (variant = "redis" /\ r.useCache /\ r.batched) =>
            /\ Len(BatchCalls(r)) <= 1
            /\ Len(r.hits) = Len(r.texts)
            /\ MissSet(r) = {} => Len(r.calls) = Len(SingleCalls(r))
            /\ MissSet(r) # {} =>
                  /\ Len(BatchCalls(r)) = 1
                  /\ BatchCalls(r)[1].input =
                        [j \in 1..Cardinality(MissSet(r)) |-> r.texts[NthMiss(r, j)]]
            /\ Len(r.embs) = Len(r.texts)
            /\ \A i \in 1..Len(r.texts) :
                  r.embs[i] = IF i \in MissSet(r) THEN At(r.fresh, MissRank(r, i))
                              ELSE r.hits[i]

\* a reconciliation with a hit and a miss that went on to a ranked list
C1_Witness ==
    \E p \in Procs :
        /\ Returned(p) /\ variant = "redis" /\ inv[p].useCache /\ inv[p].batched
        /\ MissSet(inv[p]) # {}
        /\ MissSet(inv[p]) # 1..Len(inv[p].texts)

\* what the returned list must be made of: the input results, each with the
\* similarity of the query embedding and its own embedding
Scored(p, i) ==
    [result |-> args[p].results[i],
     similarity |-> cosineSimilarity(inv[p].qEmb, At(inv[p].embs, i)).val]

IsRankingOfInputs(p) ==
    LET n == NumResults(p) IN
    /\ Len(inv[p].ret) = n
    /\ \E f \in [1..n -> 1..n] :
          /\ \A i, j \in 1..n : f[i] = f[j] => i = j
          /\ \A k \in 1..n : inv[p].ret[k] = Scored(p, f[k])

NonIncreasing(list) ==
    \A k \in 1..(Len(list) - 1) : SimGeq(list[k].similarity, list[k + 1].similarity)

\* C2 as stated: every successful rank of N >= 1 results returns N elements,
\* a permutation of the scored inputs, in non-increasing order of similarity.
C2_AsStated ==
    \A p \in Procs :
        (Returned(p) /\ NumResults(p) >= 1) =>
            IsRankingOfInputs(p) /\ NonIncreasing(inv[p].ret)

\* C2, amended: ... in non-increasing order of similarity whenever no
\* similarity is NaN (no embedding involved has zero norm).
C2_RankedPermutationSorted ==
    \A p \in Procs :
        (Returned(p) /\ NumResults(p) >= 1) =>
            /\ IsRankingOfInputs(p)
            /\ (\A k \in 1..Len(inv[p].ret) : ~IsNaN(inv[p].ret[k].similarity))
                  => NonIncreasing(inv[p].ret)

\* a successful rank whose sort had to move an element
C2_Witness ==
    \E p \in Procs :
        /\ Returned(p) /\ NumResults(p) = 2
        /\ inv[p].ret[1].result = args[p].results[2]
        /\ inv[p].ret[1].similarity # inv[p].ret[2].similarity
        /\ ~IsNaN(inv[p].ret[2].similarity)

\* C3 as stated: with caching enabled no failure of the cache, an unconnected
\* store included, ends rank with an error.
C3_CacheNeverFatal ==
    \A p \in Procs :
        (variant = "redis" /\ Done(p) /\ inv[p].useCache) =>
            inv[p].err # "RedisNotConnected"

\* C4: an invocation ends with a list holding a scored entry for every input
\* result, or with an error and no list; whatever the provider answered.
C4_NoPartialSuccess ==
    \A p \in Procs :
        Done(p) =>
            \/ /\ inv[p].status = "ok"
               /\ inv[p].err = ""
               /\ Len(inv[p].ret) = NumResults(p)
               /\ \A i \in 1..NumResults(p) :
                     \E k \in 1..Len(inv[p].ret) :
                        /\ inv[p].ret[k].result = args[p].results[i]
                        /\ Occurrences([j \in 1..Len(inv[p].ret) |-> inv[p].ret[j].result],
                                       args[p].results[i])
                              = Occurrences(args[p].results, args[p].results[i])
            \/ /\ inv[p].status = "error"
               /\ inv[p].err # ""
               /\ inv[p].ret = <<>>

\* the batch answered with a vector short: some results could be scored, and
\* the invocation ended with an error
C4_Witness ==
    \E p \in Procs :
        /\ Done(p) /\ inv[p].status = "error" /\ inv[p].err = "TypeError"
        /\ NumResults(p) = 2 /\ Len(inv[p].fresh) = 1
        /\ cosineSimilarity(inv[p].qEmb, At(inv[p].embs, 1)).err = ""

\* C5: rank of an empty list returns the empty list, with no provider call
\* and no cache read or write.
C5_EmptyResults ==
    \A p \in Procs :
        (Done(p) /\ NumResults(p) = 0) =>
            /\ inv[p].status = "ok"
            /\ inv[p].ret = <<>>
            /\ inv[p].calls = <<>>
            /\ inv[p].gets = 0
            /\ inv[p].sets = 0

\* an empty list ranked against a blank query, caching on, store unconnected
C5_Witness ==
    \E p \in Procs :
        /\ Returned(p) /\ NumResults(p) = 0 /\ IsBlank(args[p].query)
        /\ inv[p].useCache /\ ~isConnected /\ variant = "redis"

\* C6 as stated (read in its favour: the store answered every read and write
\* of both calls): a second rank of the same input, caching enabled, returns
\* what the first returned and calls the provider not at all.
C6_Idempotent ==
    \A p \in Procs :
        (variant = "redis" /\ Returned(p) /\ inv[p].op = "rank" /\ inv[p].useCache
           /\ ~inv[p].cfail /\ inv[p].prev.valid) =>
            /\ inv[p].ret = inv[p].prev.ret
            /\ inv[p].calls = <<>>

\* C7: a successful quickRank of a non-empty list issues no cache read and no
\* cache write, and exactly two provider calls: the query alone, then all
\* candidate texts in input order; and no step of a quickRank changes the
\* store.
C7_QuickRankNoCache ==
    /\ [](\A p \in Procs :
            (Returned(p) /\ inv[p].op = "quickRank" /\ NumResults(p) >= 1) =>
                /\ inv[p].gets = 0
                /\ inv[p].sets = 0
                /\ inv[p].calls =
                      <<[kind |-> "single", input |-> <<args[p].query>>],
                        [kind |-> "batch",
                         input |-> [i \in 1..NumResults(p) |->
                                       extractTextContent(args[p].results[i]).text]]>>)
    /\ [][\A p \in Procs :
            (inv'[p] # inv[p] /\ "quickRank" \in {inv[p].op, inv'[p].op})
                => cache' = cache]_vars

\* quickRank of two results on the Redis engine, with entries in the store
C7_Witness ==
    \E p \in Procs :
        /\ Returned(p) /\ inv[p].op = "quickRank" /\ NumResults(p) = 2
        /\ variant = "redis" /\ isConnected /\ DOMAIN cache # {}

\* a batch answer has come in for invocation p
BatchAnswered(p) ==
    Len(BatchCalls(inv[p])) = 1 /\ (inv[p].pc = "bset" \/ inv[p].batched)

\* C8 as stated: a batch answer with another number of vectors than texts
\* requested fails the rank, and none of its vectors is written to the cache.
C8_BatchCountChecked ==
    \A p \in Procs :
        (BatchAnswered(p) /\ Len(inv[p].fresh) # Len(BatchCalls(inv[p])[1].input)) =>
            /\ inv[p].pc # "bset"
            /\ Done(p) /\ inv[p].status = "error"

\* C9 as stated: no provider call carries a blank text, and a rank with a
\* blank query ends with the empty-text error before any provider call.
C9_BlankRejected ==
    \A p \in Procs :
        /\ \A c \in 1..Len(inv[p].calls) :
              \A t \in 1..Len(inv[p].calls[c].input) :
                 ~IsBlank(inv[p].calls[c].input[t])
        /\ (Done(p) /\ NumResults(p) >= 1 /\ IsBlank(args[p].query)) =>
              /\ inv[p].status = "error"
              /\ inv[p].err = "EmptyText"
              /\ inv[p].calls = <<>>

\* what rank returns for input a when it runs alone: every text embedded by
\* the provider
RankAlone(a) ==
    Score([Idle EXCEPT !.qEmb = Embed(a.query),
                       !.embs = [i \in 1..Len(a.results) |->
                                    Some(Embed(extractTextContent(a.results[i]).text))]],
          a).ret

\* C10 as stated: under every interleaving every cache entry is the provider's
\* embedding of a submitted text with that key, and every invocation returns
\* the list it would return alone.
C10_ConcurrentSafe ==
    /\ \A k \in DOMAIN cache :
          \E p \in Procs : \E t \in TextsOf(args[p]) :
             /\ generateEmbeddingCacheKey(t) = k
             /\ cache[k].value = JSONStringify(Embed(t))
    /\ \A p \in Procs : Returned(p) => inv[p].ret = RankAlone(args[p])

\* C11: no step of any invocation, successful or failed, changes the caller's
\* query or results list (length, order, field values); no input record ever
\* carries a similarity field; every element of a returned list is a record
\* built by the invocation (the result with its similarity), not an input
\* record.
C11_InputUntouched ==
    /\ [](\A p \in Procs :
            /\ \A i \in 1..NumResults(p) :
                  "similarity" \notin DOMAIN args[p].results[i]
            /\ Done(p) =>
                  \A k \in 1..Len(inv[p].ret) :
                     /\ DOMAIN inv[p].ret[k] = {"result", "similarity"}
                     /\ \E i \in 1..NumResults(p) : inv[p].ret[k].result = args[p].results[i])
    /\ [][args' = args]_vars

\* a rank whose sort put the second input result first
C11_Witness ==
    \E p \in Procs :
        /\ Returned(p) /\ NumResults(p) = 2
        /\ inv[p].ret[1].result = args[p].results[2]
        /\ inv[p].ret[1].result # inv[p].ret[2].result

\* invocation p has run results.map(extractTextContent): it holds the texts, or
\* it ended with the TypeError of an extraction (no embeddings array yet)
PastExtraction(p) ==
    \/ Len(inv[p].texts) > 0
    \/ Done(p) /\ inv[p].err = "TypeError" /\ ~inv[p].batched

HasForm(text, result) ==
    LET head == TitlePrefix \o result.title \o DescriptionInfix IN
    Len(text) >= Len(head) /\ SubSeq(text, 1, Len(head)) = head

\* C12 as stated: extraction never raises, for results without pagemap, without
\* metatags or with an empty metatags list alike: an invocation that has run
\* the extraction holds one text per result, of the form
\* "Title: {title} Description: {description}"; so a rank of results that have
\* only title and snippet does not end with the extractor's error.
C12_ExtractTotal ==
    \A p \in Procs :
        PastExtraction(p) =>
            /\ Len(inv[p].texts) = NumResults(p)
            /\ \A i \in 1..NumResults(p) : HasForm(inv[p].texts[i], args[p].results[i])

\* the og:description of the first metatags entry that has a non-empty one
RECURSIVE FirstRich(_)
FirstRich(tags) ==
    IF Len(tags) = 0 THEN Null
    ELSE IF Len(Head(tags).og) > 0 THEN Some(Head(tags).og)
    ELSE FirstRich(Tail(tags))

RichDescription(result) ==
    IF IsNull(result.pagemap) \/ IsNull(Val(result.pagemap).metatags) THEN Null
    ELSE FirstRich(Val(Val(result.pagemap).metatags))

\* C13 as stated: the text extracted for a result is its title with, as the
\* description, the rich description of a metatags entry (at whatever
\* position) cut to 800 characters if some entry has one, and the snippet
\* verbatim only if none has.
C13_DescriptionPolicy ==
    \A p \in Procs :
        Len(inv[p].texts) > 0 =>
            \A i \in 1..NumResults(p) :
                LET result == args[p].results[i]
                    rich == RichDescription(result)
                IN  inv[p].texts[i] =
                        TitlePrefix \o result.title \o DescriptionInfix
                        \o (IF IsNull(rich) THEN result.snippet
                            ELSE SubstringTo(Val(rich), OG_DESCRIPTION_MAX))

\* C14 as stated: whichever step fails (blank query, single-text call, batch
\* call, vectors of different length), the error rank ends with is a
\* RankingError wrapping the cause, never the error of the step itself.
C14_ErrorsWrapped ==
    \A p \in Procs :
        (Done(p) /\ inv[p].status = "error") =>
            inv[p].err \notin {"EmptyText", "ProviderError", "NoEmbedding",
                               "MissingEmbedding", "VectorLength"}

\* C15 as stated: topResults returns the first min(n, N) elements of what rank
\* returns with the caller's useCache on the same cache and provider, and
\* fails exactly when that rank fails; quickRank is rank without cache.  So a
\* topResults asked to use the cache runs rank with the cache; with the
\* query's embedding in the cache it makes no provider call for the query,
\* and cannot fail on one.
C15_ConvenienceAgree ==
    \A p \in Procs :
        (Done(p) /\ inv[p].op \in {"top", "quickRank"}) =>
            /\ inv[p].status = "ok" =>
                  inv[p].out = IF inv[p].op = "top"
                               THEN SubSeq(inv[p].ret, 1, Min(inv[p].topN, NumResults(p)))
                               ELSE inv[p].ret
            /\ inv[p].status = "error" => inv[p].out = <<>>
            /\ inv[p].op = "quickRank" => ~inv[p].useCache
            /\ (inv[p].op = "top" /\ variant = "redis") => inv[p].useCache = inv[p].want
            /\ (inv[p].op = "top" /\ variant = "mem" /\ inv[p].want /\ NumResults(p) >= 1
                  /\ args[p].query \in DOMAIN memCache) =>
                  SingleCalls(inv[p]) = <<>>

\* the text holds a JSON object somewhere
ContainsObject(text) ==
    \E i, j \in 1..Len(text) :
        i <= j /\ JSONParseText(SubSeq(text, i, j)).ok /\ JSONParseText(SubSeq(text, i, j)).t = "object"

\* C16: generateSearchQueries returns the sentinel list or a list of at most 4
\* queries; it fails when the answer of the model (other than the sentinel
\* words) holds no JSON object, or an object whose queries member is missing,
\* is not a list, or lists more than 4.
C16_QueriesBound ==
    gen.pc = "done" =>
        LET text == gen.content
            object == IF IsNull(JsonMatch(text)) THEN NoParse
                      ELSE JSONParseText(Val(JsonMatch(text)))
        IN  /\ gen.status \in {"ok", "error"}
            /\ gen.status = "ok" =>
                  \/ gen.ret = Sentinel
                  \/ /\ Len(gen.ret) <= MAX_QUERIES
                     /\ \A i \in 1..Len(gen.ret) : gen.ret[i].t # "Unfulfilled"
            /\ gen.status = "error" => gen.ret = <<>> /\ gen.err # ""
            /\ (text \notin {<<"U">>, <<"N">>} /\ ~ContainsObject(text)) => gen.status = "error"
            /\ (object.ok /\ IsNull(QueriesOf(object))) => gen.status = "error"
            /\ (object.ok /\ ~IsNull(QueriesOf(object))) =>
                  LET queries == Val(QueriesOf(object)) IN
                  (queries.t # "array" \/ Len(queries.items) > MAX_QUERIES)
                      => gen.status = "error"

\* an answer with prose around an object of exactly 4 queries: returned
C16_Witness ==
    /\ gen.pc = "done" /\ gen.status = "ok" /\ Len(gen.ret) = MAX_QUERIES
    /\ Val(JsonMatch(gen.content)) # gen.content

\* C17 as stated: while an invocation writes its fresh embeddings back, the
\* keys of these writes are pairwise distinct, whatever the candidate list.
C17_WriteKeysDistinct ==
    \A p \in Procs :
        (variant = "redis" /\ inv[p].useCache /\ inv[p].pc = "bset") =>
            \A i, j \in 1..Len(inv[p].miss) :
                i # j => generateEmbeddingCacheKey(inv[p].texts[inv[p].miss[i]])
                            # generateEmbeddingCacheKey(inv[p].texts[inv[p].miss[j]])

\* C18 as stated: redis.connect() is invoked only when no connect is pending
\* and the connection is not open (once for any number of initRedis calls,
\* overlapping or not, with no closeRedis in between), and redis.quit() only
\* on a connection that is open (once per open connection).
C18_ConnectOnce ==
    [][\A c \in Callers :
          /\ (life[c] # "connecting" /\ life'[c] = "connecting") =>
                (~connOpen /\ \A d \in Callers : life[d] # "connecting")
          /\ (life[c] # "quitting" /\ life'[c] = "quitting") => connOpen]_vars

\* C19 as stated: whenever getRedisClient hands out the client (isConnected
\* is true), the connection is open: a connect has completed and no quit has
\* been started since.
C19_FlagMatchesConnection == getRedisClient(isConnected) = "client" => connOpen

\* C20: with the cache connected searchGoogle returns, and its list is the
\* concatenation, in query order, of one list per query: the cached list if
\* the cache read gave one (no request to the search provider then), else
\* what the provider found, or the empty list if its request failed (for that
\* query only); a failed cache read or write changes none of this.  And a
\* callback goes on to the search provider only when its cache read threw or
\* found no entry.
C20_PerQueryIsolation ==
    /\ []((sg.pc = "done" /\ isConnected) =>
            /\ sg.status = "ok"
            /\ Len(sg.tasks) = Len(sg.queries)
            /\ \A i \in 1..Len(sg.queries) :
                  LET t == sg.tasks[i] IN
                  /\ ~IsNull(t.cached) => t.http = "none" /\ t.out = Val(t.cached)
                  /\ IsNull(t.cached) => t.http \in HttpOutcomes
                  /\ t.http = "items" => t.out = SearchItems(sg.queries[i])
                  /\ t.http \in {"noitems", "error"} => t.out = <<>>
            /\ sg.ret = Flat([i \in 1..Len(sg.queries) |-> sg.tasks[i].out]))
    /\ [][\A i \in 1..Len(sg.tasks) :
            (sg.pc = "running" /\ sg'.pc # "idle" /\ sg.tasks[i].pc = "get"
               /\ sg'.tasks[i].http # "none") =>
                (sg'.tasks[i].rfail \/ ~CacheHas(cache, generateCacheKey(sg.queries[i])))]_vars

\* a search of two queries: the first read its list from the cache, the
\* second's cache read and write failed and its list came from the provider
C20_Witness ==
    /\ sg.pc = "done" /\ isConnected /\ Len(sg.queries) = 2
    /\ ~IsNull(sg.tasks[1].cached) /\ Len(sg.tasks[1].out) > 0
    /\ sg.tasks[2].rfail /\ sg.tasks[2].wfail /\ sg.tasks[2].http = "items"
    /\ sg.ret = sg.tasks[1].out \o SearchItems(sg.queries[2])
    /\ sg.tasks[1].out # SearchItems(sg.queries[2])

====
